---- MODULE Spec2Model ----
(***************************************************************************)
(* State-machine model of the training utilities of notebooks/QML_utils.py *)
(* (measure_result, NLL, gradient, training).                              *)
(*                                                                         *)
(* Numbers.  The losses are sums of base-2 logarithms of ratios of         *)
(* integers.  A finite real is kept exactly, as a tuple <<a, b, c, e, d>>  *)
(* that stands for (a + b*log2(3) + c*log2(5) + e*log2(7)) / d with d > 0  *)
(* and gcd(a, b, c, e, d) = 1.  Since 1, log2(3), log2(5), log2(7) are     *)
(* linearly independent over the rationals the tuple is unique, so         *)
(* equality of tuples is equality of the reals.  Shot counts and outcome   *)
(* counts are drawn from integers whose prime factors are 2, 3, 5, 7.      *)
(* Floating-point rounding is not modelled; the IEEE special values        *)
(* inf, -inf and nan that numpy's log2 produces are.                       *)
(*                                                                         *)
(* Parameter vectors and perturbations are expressed in units of           *)
(* eps*2*pi (the factor of line 277), so that a uniform draw u in [0,1)    *)
(* gives the perturbation component u.                                     *)
(***************************************************************************)
EXTENDS Integers, Sequences, FiniteSets, TLC

\* ------------------------------------------------------------------ bounds
MaxBatch == 2        \* longest databatch
MaxParams == 2       \* largest BBQC.num_parameters
MaxSteps == 2        \* largest n_steps; also the steps the notebook runs over all its calls
MaxCalls == 2        \* successive calls of training by the notebook

\* ------------------------------------------------- exact real arithmetic
Abs(i) == IF i < 0 THEN -i ELSE i

RECURSIVE GCD(_, _)
GCD(m, n) == IF n = 0 THEN m ELSE GCD(n, m % n)

Norm(t) ==
  LET g == GCD(GCD(GCD(Abs(t[1]), Abs(t[2])), GCD(Abs(t[3]), Abs(t[4]))), t[5])
  IN  <<t[1] \div g, t[2] \div g, t[3] \div g, t[4] \div g, t[5] \div g>>

Zero == <<0, 0, 0, 0, 1>>
Rat(p, q) == Norm(<<p, 0, 0, 0, q>>)
Add(p, q) ==
  Norm(<<p[1] * q[5] + q[1] * p[5], p[2] * q[5] + q[2] * p[5],
         p[3] * q[5] + q[3] * p[5], p[4] * q[5] + q[4] * p[5], p[5] * q[5]>>)
Neg(p) == <<-p[1], -p[2], -p[3], -p[4], p[5]>>
Sub(p, q) == Add(p, Neg(q))
\* p times the rational r (r[2] = r[3] = r[4] = 0)
MulRat(p, r) ==
  Norm(<<p[1] * r[1], p[2] * r[1], p[3] * r[1], p[4] * r[1], p[5] * r[5]>>)
DivInt(p, n) == Norm(<<p[1], p[2], p[3], p[4], p[5] * n>>)

RECURSIVE Exponent(_, _)
Exponent(k, p) == IF k % p = 0 THEN 1 + Exponent(k \div p, p) ELSE 0

\* np.log2 of a positive integer with prime factors 2, 3, 5, 7
Log2Int(k) == <<Exponent(k, 2), Exponent(k, 3), Exponent(k, 5), Exponent(k, 7), 1>>

\* -------------------------------------------------------- float results
Fin(v) == [k |-> "fin", v |-> v]
PInf == [k |-> "pinf", v |-> Zero]
NInf == [k |-> "ninf", v |-> Zero]
NaN == [k |-> "nan", v |-> Zero]

FAdd(f, h) ==
  IF f.k = "nan" \/ h.k = "nan" THEN NaN
  ELSE IF f.k = "fin" /\ h.k = "fin" THEN Fin(Add(f.v, h.v))
  ELSE IF f.k = "fin" THEN h
  ELSE IF h.k = "fin" THEN f
  ELSE IF f.k = h.k THEN f
  ELSE NaN

\* f / n for an integer n > 0
FDiv(f, n) == IF f.k = "fin" THEN Fin(DivInt(f.v, n)) ELSE f

\* np.log2(n) of an integer n
NpLog2(n) == IF n > 0 THEN Fin(Log2Int(n)) ELSE IF n = 0 THEN NInf ELSE NaN

\* 2*np.log2(n_shots), line 271
MissingTermWrong(n_shots) == NpLog2(n_shots)
MissingTerm(n_shots) == LET l == NpLog2(n_shots) IN FAdd(l, l)

\* -np.log2(temp/n_shots) for n_shots # 0, line 273
PresentTerm(temp, n_shots) ==
  IF temp = 0 THEN PInf
  ELSE IF n_shots < 0 THEN NaN
  ELSE Fin(Sub(Log2Int(n_shots), Log2Int(temp)))

Return(val) == [tag |-> "return", val |-> val]
Raise(exc) == [tag |-> "raise", exc |-> exc]
NoResult == [tag |-> "none"]

\* The loop of lines 268-273 from item i on, acc being the running sum.
RECURSIVE NLLLoop(_, _, _, _, _)
NLLLoop(counts, databatch, n_shots, i, acc) ==
  IF i > Len(databatch) THEN Return(acc)
  ELSE IF databatch[i] \notin DOMAIN counts      \* counts.get(i) is None
    THEN NLLLoop(counts, databatch, n_shots, i + 1, FAdd(acc, MissingTerm(n_shots)))
  ELSE IF n_shots = 0 THEN Raise("ZeroDivisionError")   \* temp/n_shots
  ELSE NLLLoop(counts, databatch, n_shots, i + 1,
               FAdd(acc, PresentTerm(counts[databatch[i]], n_shots)))

\* NLL(counts, databatch, n_shots), lines 266-274
NLL(counts, databatch, n_shots) ==
  LET s == NLLLoop(counts, databatch, n_shots, 1, Fin(Zero))
  IN  IF s.tag = "raise" THEN s
      ELSE IF Len(databatch) = 0 THEN Raise("ZeroDivisionError")   \* NLL/len(databatch)
      ELSE Return(FDiv(s.val, Len(databatch)))

DefaultShots == 1000     \* the default n_shots of NLL, measure_result and gradient

\* ------------------------------------------------------------ input sets
Bitstrings == {"00", "01", "10"}
CountValues == {0, 280, 500}
\* counts dictionaries handed to NLL directly
CountsDicts == UNION {[D -> CountValues] : D \in SUBSET Bitstrings}
ShotChoices == {-8, 0, 8, DefaultShots}
Batches == UNION {[1..n -> Bitstrings] : n \in 0..MaxBatch}

\* ------------------------------------------------------------------ state
VARIABLES
  nll,          \* a direct call of NLL: its arguments, the caller's counts object, its result
  g,            \* the frame of gradient
  t,            \* the frame of training
  simulator,    \* the module-level name `simulator` (unbound after import)
  tracks,       \* the list objects, by identity: 0 is the default of loss_track (made once,
                \* at line 287), k >= 1 the list the notebook built for its k-th call
  rng,          \* the state of the process-wide generator np.random
  drv           \* the calling notebook: calls made, arguments, the results it holds

vars == <<nll, g, t, simulator, tracks, rng, drv>>

NllIdle == [pc |-> "idle", counts |-> <<>>, counts0 |-> <<>>, databatch |-> <<>>,
            n_shots |-> DefaultShots, ret |-> NoResult]

\* The notebook builds the arguments of a call of NLL.
NLLPrepare ==
  /\ nll.pc = "idle"
  /\ \E c \in CountsDicts, b \in Batches, n \in ShotChoices :
        nll' = [pc |-> "ready", counts |-> c, counts0 |-> c, databatch |-> b,
                n_shots |-> n, ret |-> NoResult]
  /\ UNCHANGED <<g, t, simulator, tracks, rng, drv>>

\* The call NLL(counts, databatch, n_shots): counts is only read (counts.get).
NLLCall ==
  /\ nll.pc = "ready"
  /\ nll' = [nll EXCEPT !.pc = "done",
                        !.ret = NLL(nll.counts, nll.databatch, nll.n_shots)]
  /\ UNCHANGED <<g, t, simulator, tracks, rng, drv>>

\* ---------------------------------------------------------------- vectors
VAdd(x, e) == [i \in 1..Len(x) |-> Add(x[i], e[i])]
VSub(x, e) == [i \in 1..Len(x) |-> Sub(x[i], e[i])]
VScale(s, e) == [i \in 1..Len(e) |-> MulRat(s, e[i])]    \* e rational
VScaleRat(r, v) == [i \in 1..Len(v) |-> MulRat(v[i], r)]  \* r rational
ZeroVec(n) == [i \in 1..n |-> Zero]

\* ------------------------------------------------- the generator np.random
\* The process-wide generator is a deterministic function of its state; a
\* small full-period congruential generator stands for it.
RngStates == 0..3
NextRng(s) == (5 * s + 3) % 4

RECURSIVE RngAfter(_, _)
RngAfter(s, n) == IF n = 0 THEN s ELSE RngAfter(NextRng(s), n - 1)

\* one uniform value of [0, 1) read off the state s
Uniform(s) == Rat(s, 4)
\* np.random.uniform(size=n) from state s
UniformDraws(s, n) == [i \in 1..n |-> Uniform(RngAfter(s, i - 1))]
\* np.random.choice(N, size=k) from state s: 0-based indices
ChoiceDraws(s, N, k) == [i \in 1..k |-> (RngAfter(s, i - 1) \div 2) % N]

\* ------------------------------------------------------------ the sampler
\* Simulator objects.  "stub" answers every run with the same counts and
\* never fails; "aer" samples, so its counts vary from run to run, and its
\* run can fail.
Simulators == {"stub", "aer"}
Quarter(n) == ("01" :> n \div 4) @@ ("00" :> n - n \div 4)
Half(n) == ("01" :> n \div 2) @@ ("00" :> n - n \div 2)
\* result.get_counts() of measure_result, lines 259-264
GetCounts(sim, n_shots) ==
  IF sim = "stub" THEN {Quarter(n_shots)} ELSE {Quarter(n_shots), Half(n_shots)}
CanFail(sim) == sim = "aer"

\* --------------------------------------------------------------- gradient
GIdle == [pc |-> "idle", caller |-> "none", x |-> <<>>, databatch |-> <<>>, BBQC |-> 0,
          simulator |-> "none", n_shots |-> 0, epsilon |-> <<>>, draws |-> 0,
          countsplus |-> <<>>, countsminus |-> <<>>, counts |-> <<>>,
          calls |-> <<>>, nllcalls |-> <<>>, ret |-> NoResult]

\* the frame of a call gradient(x, databatch, BBQC, simulator, n_shots)
GCall(caller, x, databatch, BBQC, sim, n_shots) ==
  [GIdle EXCEPT !.pc = "start", !.caller = caller, !.x = x, !.databatch = databatch,
                !.BBQC = BBQC, !.simulator = sim, !.n_shots = n_shots]

\* the points of lines 278, 279 and 280
XPlus(x, epsilon) == VAdd(x, epsilon)
XMinusWrong(x, epsilon) == VAdd(x, epsilon)
XMinus(x, epsilon) == VSub(x, epsilon)

\* line 283: (NLL_plus - NLL_minus)/2*epsilon
FD_dfdx_NoHalf(NLL_plus, NLL_minus, epsilon) == VScale(Sub(NLL_plus, NLL_minus), epsilon)
FD_dfdx(NLL_plus, NLL_minus, epsilon) ==
  VScale(DivInt(Sub(NLL_plus, NLL_minus), 2), epsilon)

GradShotChoices == {8, DefaultShots}
TrainData == <<"01", "10">>
GradBatches == UNION {[1..n -> {TrainData[i] : i \in 1..Len(TrainData)}] : n \in 0..MaxBatch}

\* The notebook calls gradient directly.
gradient_call ==
  /\ g.pc \in {"idle", "returned", "raised"}
  /\ g.caller \in {"none", "notebook"}
  /\ \E n \in 1..MaxParams, b \in GradBatches, sim \in Simulators, shots \in GradShotChoices :
       g' = GCall("notebook", ZeroVec(n), b, n, sim, shots)
  /\ UNCHANGED <<nll, t, simulator, tracks, rng, drv>>

\* line 277: epsilon = eps*2*np.pi*np.random.uniform(size=BBQC.num_parameters)
gradient_epsilon ==
  /\ g.pc = "start"
  /\ g' = [g EXCEPT !.pc = "plus", !.epsilon = UniformDraws(rng, g.BBQC),
                    !.draws = g.draws + 1]
  /\ rng' = RngAfter(rng, g.BBQC)
  /\ UNCHANGED <<nll, t, simulator, tracks, drv>>

\* measure_result(BBQC, simulator, x, n_shots=n_shots), lines 259-264, called at
\* program point pc with the point xx; the counts go to the local `field`.
MeasureResult(pc, xx, next, field) ==
  /\ g.pc = pc
  /\ LET call == [BBQC |-> g.BBQC, simulator |-> g.simulator, x |-> xx, n_shots |-> g.n_shots]
     IN  \/ \E c \in GetCounts(g.simulator, g.n_shots) :
               g' = [g EXCEPT !.pc = next, ![field] = c,
                              !.calls = Append(g.calls, [call |-> call, result |-> Return(c)])]
         \/ /\ CanFail(g.simulator)
            /\ g' = [g EXCEPT !.pc = "raised", !.ret = Raise("SamplerFailure"),
                              !.calls = Append(g.calls, [call |-> call,
                                                         result |-> Raise("SamplerFailure")])]
  /\ UNCHANGED <<nll, t, simulator, tracks, rng, drv>>

\* line 278
measure_plus == MeasureResult("plus", XPlus(g.x, g.epsilon), "minus", "countsplus")
\* line 279
measure_minus == MeasureResult("minus", XMinus(g.x, g.epsilon), "x", "countsminus")
\* line 280
measure_x == MeasureResult("x", g.x, "compute", "counts")

\* the n_shots NLL receives from gradient: lines 281, 282 and 284 pass none,
\* so NLL runs with its default
NLLShots(n_shots) == DefaultShots

\* the counts line 284 evaluates for NLL_x
CountsForLoss(fr) == fr.counts

\* lines 281-285
gradient_compute ==
  /\ g.pc = "compute"
  /\ LET n == NLLShots(g.n_shots)
         NLL_plus == NLL(g.countsplus, g.databatch, n)
         NLL_minus == NLL(g.countsminus, g.databatch, n)
         NLL_x == NLL(CountsForLoss(g), g.databatch, n)
         log == <<[counts |-> g.countsplus, databatch |-> g.databatch, n_shots |-> n],
                  [counts |-> g.countsminus, databatch |-> g.databatch, n_shots |-> n],
                  [counts |-> CountsForLoss(g), databatch |-> g.databatch, n_shots |-> n]>>
     IN  IF NLL_plus.tag = "raise"
           THEN g' = [g EXCEPT !.pc = "raised", !.ret = NLL_plus,
                               !.nllcalls = SubSeq(log, 1, 1)]
         ELSE IF NLL_minus.tag = "raise"
           THEN g' = [g EXCEPT !.pc = "raised", !.ret = NLL_minus,
                               !.nllcalls = SubSeq(log, 1, 2)]
         ELSE IF NLL_x.tag = "raise"
           THEN g' = [g EXCEPT !.pc = "raised", !.ret = NLL_x, !.nllcalls = log]
         ELSE g' = [g EXCEPT !.pc = "returned", !.nllcalls = log,
                      !.ret = Return([FD_dfdx |-> FD_dfdx(NLL_plus.val.v, NLL_minus.val.v, g.epsilon),
                                      NLL_x |-> NLL_x.val.v])]
  /\ UNCHANGED <<nll, t, simulator, tracks, rng, drv>>

\* --------------------------------------------------------------- training
TIdle == [pc |-> "idle", initial_x |-> <<>>, BBQC |-> 0, similator |-> "none",
          batchsize |-> 0, n_steps |-> 0, loss_track |-> 0, alpha |-> Zero,
          x |-> <<>>, i |-> 0, databatch |-> <<>>, track0 |-> <<>>,
          passed |-> <<>>, grads |-> <<>>, failed |-> FALSE, ret |-> NoResult]
\* results holds what each call handed back (a returned trace is a list object,
\* so later appends to it show through); atreturn records, for each call, the
\* contents that result had at the moment the call returned
DrvInit == [calls |-> 0, args |-> <<>>, seed |-> 0, reseeded |-> FALSE, results |-> <<>>,
            atreturn |-> <<>>]

Alphas == {Rat(1, 100)}              \* alpha=0.01, line 287
\* loss_track: left at its default (the list object made at line 287), or a
\* list of the notebook, empty or already holding one loss
TrackArgs == {[obj |-> "default", init |-> <<>>], [obj |-> "caller", init |-> <<>>],
              [obj |-> "caller", init |-> <<Zero>>]}

\* traindata[I], line 292 (I holds 0-based indices)
Take(traindata, I) == [k \in 1..Len(I) |-> traindata[I[k] + 1]]

\* line 295: x - alpha * dfdx
UpdateWrong(x, alpha, dfdx) == VAdd(x, VScaleRat(alpha, dfdx))
Update(x, alpha, dfdx) == VSub(x, VScaleRat(alpha, dfdx))

\* the frame of training(initial_x, traindata, BBQC, similator, batchsize, n_steps,
\* loss_track, alpha) once line 289 has run; obj is the list object bound to
\* loss_track and track0 its contents at the call
TFrame(a, obj, track0) ==
  [TIdle EXCEPT !.pc = "loop", !.initial_x = a.initial_x, !.BBQC = a.BBQC,
                !.similator = a.similator, !.batchsize = a.batchsize,
                !.n_steps = a.n_steps, !.loss_track = obj, !.alpha = a.alpha,
                !.x = a.initial_x, !.track0 = track0]

\* The notebook binds the module-level name `simulator`.
bind_simulator ==
  /\ simulator = "unbound" /\ t.pc = "idle"
  /\ \E s \in Simulators : simulator' = s
  /\ UNCHANGED <<nll, g, t, tracks, rng, drv>>

\* The notebook calls training; loss_track is left at its default or a list is handed in.
training_call ==
  /\ t.pc = "idle" /\ drv.calls = 0
  /\ \E n \in 1..MaxParams, sim \in Simulators, bs \in 0..MaxBatch, steps \in 0..MaxSteps,
        al \in Alphas, tr \in TrackArgs :
       LET a == [initial_x |-> ZeroVec(n), BBQC |-> n, similator |-> sim,
                 batchsize |-> bs, n_steps |-> steps, loss_track |-> tr.obj,
                 alpha |-> al, initial_trace |-> tr.init]
           obj == IF tr.obj = "default" THEN 0 ELSE 1
           tr0 == IF tr.obj = "default" THEN tracks[0] ELSE tr.init
       IN  /\ tracks' = [tracks EXCEPT ![obj] = tr0]
           /\ t' = TFrame(a, obj, tr0)
           /\ drv' = [drv EXCEPT !.calls = 1, !.args = a, !.seed = rng]
  /\ UNCHANGED <<nll, g, simulator, rng>>

\* The notebook calls training again with the same arguments (a handed-in list
\* is built afresh with the same contents), after re-seeding np.random with
\* the seed of the first call or without re-seeding.
training_again ==
  /\ t.pc \in {"returned", "raised"}
  /\ 1 <= drv.calls /\ drv.calls < MaxCalls
  /\ (drv.calls + 1) * drv.args.n_steps <= MaxSteps
  /\ \E reseed \in BOOLEAN :
       /\ rng' = IF reseed THEN drv.seed ELSE rng
       /\ drv' = [drv EXCEPT !.calls = drv.calls + 1, !.reseeded = reseed]
  /\ LET a == drv.args
         obj == IF a.loss_track = "default" THEN 0 ELSE drv.calls + 1
         tr0 == IF a.loss_track = "default" THEN tracks[0] ELSE a.initial_trace
     IN  /\ tracks' = [tracks EXCEPT ![obj] = tr0]
         /\ t' = TFrame(a, obj, tr0)
  /\ UNCHANGED <<nll, g, simulator>>

\* lines 290-293: the next iteration draws its batch and calls gradient with
\* the module-level `simulator` (the parameter is spelt `similator`)
training_step ==
  /\ t.pc = "loop" /\ t.i < t.n_steps
  /\ LET I == ChoiceDraws(rng, Len(TrainData), t.batchsize)
         databatch == Take(TrainData, I)
     IN  /\ rng' = RngAfter(rng, t.batchsize)
         /\ IF simulator = "unbound"
              THEN /\ t' = [t EXCEPT !.pc = "raised", !.databatch = databatch,
                                     !.ret = Raise("NameError")]
                   /\ drv' = [drv EXCEPT !.results = Append(drv.results, Raise("NameError")),
                                         !.atreturn = Append(drv.atreturn, Raise("NameError"))]
                   /\ g' = g
              ELSE /\ t' = [t EXCEPT !.pc = "wait", !.databatch = databatch,
                                     !.passed = Append(t.passed, [x |-> t.x, databatch |-> databatch])]
                   /\ g' = GCall("training", t.x, databatch, t.BBQC, simulator, DefaultShots)
                   /\ drv' = drv
  /\ UNCHANGED <<nll, simulator, tracks>>

\* lines 294-295: gradient returned (dfdx, NLL_x)
training_resume ==
  /\ t.pc = "wait" /\ g.pc = "returned" /\ g.caller = "training"
  /\ tracks' = [tracks EXCEPT ![t.loss_track] = Append(@, g.ret.val.NLL_x)]
  /\ t' = [t EXCEPT !.pc = "loop", !.i = t.i + 1,
                    !.x = Update(t.x, t.alpha, g.ret.val.FD_dfdx),
                    !.grads = Append(t.grads, g.ret.val)]
  /\ g' = GIdle
  /\ UNCHANGED <<nll, simulator, rng, drv>>

\* an exception raised inside gradient leaves training through line 293
training_propagate ==
  /\ t.pc = "wait" /\ g.pc = "raised" /\ g.caller = "training"
  /\ t' = [t EXCEPT !.pc = "raised", !.ret = g.ret,
                    !.failed = (g.ret.exc = "SamplerFailure")]
  /\ drv' = [drv EXCEPT !.results = Append(drv.results, g.ret),
                        !.atreturn = Append(drv.atreturn, g.ret)]
  /\ g' = GIdle
  /\ UNCHANGED <<nll, simulator, tracks, rng>>

\* line 296: return x, loss_track: x is a fresh array, loss_track the list object
training_return ==
  /\ t.pc = "loop" /\ t.i >= t.n_steps
  /\ LET r == Return([x |-> t.x, loss_track |-> t.loss_track])
         now == Return([x |-> t.x, loss_track |-> tracks[t.loss_track]])
     IN  /\ t' = [t EXCEPT !.pc = "returned", !.ret = r]
         /\ drv' = [drv EXCEPT !.results = Append(drv.results, r),
                               !.atreturn = Append(drv.atreturn, now)]
  /\ UNCHANGED <<nll, g, simulator, tracks, rng>>

\* --------------------------------------------------------- specifications
Init ==
  /\ nll = NllIdle /\ g = GIdle /\ t = TIdle /\ simulator = "unbound"
  /\ tracks = [k \in 0..MaxCalls |-> <<>>]
  /\ rng \in RngStates /\ drv = DrvInit

Next ==
  \/ bind_simulator \/ training_call \/ training_again \/ training_step
  \/ training_resume \/ training_propagate \/ training_return
  \/ gradient_epsilon \/ measure_plus \/ measure_minus \/ measure_x \/ gradient_compute
Spec == Init /\ [][Next]_vars

\* direct calls of NLL
InitNLL == Init /\ rng = 0
NextNLL == NLLPrepare \/ NLLCall
SpecNLL == InitNLL /\ [][NextNLL]_vars

\* direct calls of gradient
NextGradient ==
  \/ gradient_call
  \/ gradient_epsilon \/ measure_plus \/ measure_minus \/ measure_x \/ gradient_compute
SpecGradient == Init /\ [][NextGradient]_vars

\* ------------------------------------------------------------------ claims
\* number of occurrences of b in the sequence q
Occurrences(b, q) == Cardinality({i \in 1..Len(q) : q[i] = b})

\* the contribution the specification gives one target b: -log2(c/n) when b is
\* a key of counts with c > 0, 2*log2(n) when b is absent
Contribution(counts, b, n) ==
  IF b \in DOMAIN counts THEN Sub(Log2Int(n), Log2Int(counts[b]))
  ELSE MulRat(Log2Int(n), Rat(2, 1))

RECURSIVE TotalOver(_, _, _, _)
\* the contributions of the targets in S, each times its occurrences in the batch
TotalOver(S, counts, databatch, n) ==
  IF S = {} THEN Zero
  ELSE LET b == CHOOSE c \in S : TRUE
       IN  Add(MulRat(Contribution(counts, b, n), Rat(Occurrences(b, databatch), 1)),
               TotalOver(S \ {b}, counts, databatch, n))

\* C1: for a non-empty databatch and n_shots > 0, whose targets are absent from
\* counts or present with a positive count, NLL returns the mean over the batch
\* of the per-target contribution, each occurrence of a target counting once,
\* and leaves counts as it was.
C1_NLLMean ==
  (/\ nll.pc = "done" /\ Len(nll.databatch) > 0 /\ nll.n_shots > 0
   /\ \A i \in 1..Len(nll.databatch) :
        nll.databatch[i] \in DOMAIN nll.counts0 => nll.counts0[nll.databatch[i]] > 0)
  => /\ nll.ret.tag = "return" /\ nll.ret.val.k = "fin"
     /\ MulRat(nll.ret.val.v, Rat(Len(nll.databatch), 1))
          = TotalOver({nll.databatch[i] : i \in 1..Len(nll.databatch)},
                      nll.counts0, nll.databatch, nll.n_shots)
     /\ nll.counts = nll.counts0

\* a batch with a present target (500 of 1000 shots) and an absent one:
\* the loss is (1 + 2*log2(1000))/2 = (7 + 6*log2(5))/2
C1_Witness ==
  /\ nll.pc = "done" /\ nll.n_shots = 1000 /\ nll.databatch = <<"01", "10">>
  /\ DOMAIN nll.counts = {"00", "01"} /\ nll.counts["01"] = 500
  /\ nll.ret = Return(Fin(<<7, 0, 6, 0, 2>>))

\* C2: NLL fails with InvalidInput whenever databatch is empty or n_shots <= 0.
C2_InvalidInput ==
  (nll.pc = "done" /\ (Len(nll.databatch) = 0 \/ nll.n_shots <= 0))
  => nll.ret = Raise("InvalidInput")

\* C3: an invocation of gradient draws one perturbation epsilon and calls
\* measure_result at x+epsilon, then x-epsilon, then x, each time with the
\* n_shots it was given: the calls made so far are always the first ones of
\* that list, and an invocation that returns has made all three.
C3_ThreeSamples ==
  g.pc \notin {"idle", "start"}
  => /\ g.draws = 1
     /\ Len(g.calls) <= 3
     /\ LET points == <<VAdd(g.x, g.epsilon), VSub(g.x, g.epsilon), g.x>>
        IN  \A k \in 1..Len(g.calls) :
              /\ g.calls[k].call.x = points[k]
              /\ g.calls[k].call.n_shots = g.n_shots
     /\ g.pc = "returned" => Len(g.calls) = 3

C3_Witness ==
  /\ g.pc = "returned" /\ g.caller = "notebook" /\ Len(g.calls) = 3 /\ g.n_shots = 8
  /\ g.BBQC = 2 /\ g.epsilon[1] # Zero /\ g.epsilon[2] # g.epsilon[1]

\* C4: gradient returns (FD_dfdx, NLL_x) with FD_dfdx[i] = (NLL_plus - NLL_minus)/2 *
\* epsilon[i], NLL_plus and NLL_minus being NLL of the counts sampled at
\* x+epsilon and at x-epsilon on the databatch, and NLL_x being NLL of the
\* counts of the third sample, taken at x (NLL evaluated with the shot count
\* gradient invoked it with).
C4_CentralDifference ==
  g.pc = "returned"
  => LET plus == g.calls[1]
         minus == g.calls[2]
         third == g.calls[3]
         NLL_plus == NLL(plus.result.val, g.databatch, g.nllcalls[1].n_shots)
         NLL_minus == NLL(minus.result.val, g.databatch, g.nllcalls[2].n_shots)
         NLL_x == NLL(third.result.val, g.databatch, g.nllcalls[3].n_shots)
         diff == Sub(NLL_plus.val.v, NLL_minus.val.v)
     IN  /\ plus.call.x = VAdd(g.x, g.epsilon) /\ minus.call.x = VSub(g.x, g.epsilon)
         /\ third.call.x = g.x
         /\ Len(g.ret.val.FD_dfdx) = g.BBQC
         /\ \A i \in 1..g.BBQC :
              MulRat(g.ret.val.FD_dfdx[i], Rat(2, 1)) = MulRat(diff, g.epsilon[i])
         /\ g.ret.val.NLL_x = NLL_x.val.v

\* the three samples differ, the central difference is not zero, and the loss
\* at x is that of the third sample
C4_Witness ==
  /\ g.pc = "returned" /\ g.caller = "notebook"
  /\ g.countsplus # g.countsminus /\ g.counts # g.countsplus
  /\ g.ret.val.FD_dfdx[1] # Zero

\* C9: the losses of an invocation of gradient are computed by NLL with the
\* n_shots that invocation was given (and asked the sampler for).
C9_SameShots ==
  g.pc = "returned"
  => \A k \in 1..Len(g.nllcalls) : g.nllcalls[k].n_shots = g.n_shots

\* the trace object training appends to
Trace == tracks[t.loss_track]

RECURSIVE GradSum(_, _, _)
\* sum of the first k gradients of the run, as a vector of n components
GradSum(grads, k, n) ==
  IF k = 0 THEN ZeroVec(n) ELSE VAdd(GradSum(grads, k - 1, n), grads[k].FD_dfdx)

\* C5: a call of training that returns has invoked gradient n_steps times and
\* returns a trace of length len(initial_trace) + n_steps, initial_trace being
\* the list handed in, or empty when none was; the entries of the trace at the
\* call are kept.
C5_TraceLength ==
  t.pc = "returned"
  => LET initial_trace == IF drv.args.loss_track = "default" THEN <<>>
                          ELSE drv.args.initial_trace
         loss_trace == tracks[t.ret.val.loss_track]
     IN  /\ Len(t.passed) = t.n_steps
         /\ Len(loss_trace) = Len(initial_trace) + t.n_steps
         /\ SubSeq(loss_trace, 1, Len(t.track0)) = t.track0

\* C6: two successive calls of training with the same arguments, the same seed
\* and a sampler that returns fixed counts return the same final x and the
\* same loss trace: what the second call hands back when it returns is what
\* the first call handed back when it returned.
C6_Deterministic ==
  (/\ Len(drv.atreturn) >= 2 /\ drv.reseeded
   /\ drv.args.similator = "stub" /\ simulator = "stub"
   /\ drv.atreturn[Len(drv.atreturn)].tag = "return"
   /\ drv.atreturn[Len(drv.atreturn) - 1].tag = "return")
  => drv.atreturn[Len(drv.atreturn)] = drv.atreturn[Len(drv.atreturn) - 1]

\* C7: a failing sampler call ends the run at once: the failure reaches the
\* caller as it is, no sampler call follows, nothing is returned and no loss
\* of the failing or a later step is in the trace; a run in which no sampler
\* call fails completes its n_steps.
C7_FailFast ==
  /\ (t.pc = "raised" /\ t.failed)
     => /\ t.ret = Raise("SamplerFailure")
        /\ g.pc = "idle"
        /\ Len(Trace) = Len(t.track0) + t.i
        /\ Len(t.passed) = t.i + 1
  /\ (t.pc \in {"returned", "raised"} /\ ~t.failed)
     => /\ t.pc = "returned" /\ t.i = t.n_steps

\* C8: each step draws a batch of batchsize targets of traindata, calls
\* gradient with the current x, appends the loss it returns, and then sets
\* x to x - alpha*dfdx; alpha and n_steps stay what the caller gave; the x
\* returned is initial_x - alpha * (sum of the gradients).
C8_StepOrder ==
  t.pc # "idle"
  => /\ t.alpha = drv.args.alpha /\ t.n_steps = drv.args.n_steps
     /\ t.i <= t.n_steps
     /\ Len(t.grads) = t.i
     /\ Len(t.passed) = IF t.pc = "wait" \/ (t.pc = "raised" /\ t.ret.exc # "NameError")
                          THEN t.i + 1 ELSE t.i
     \* the x every call of gradient got is the x after the updates before it
     /\ \A k \in 1..Len(t.passed) :
          /\ t.passed[k].x = VSub(t.initial_x, VScaleRat(t.alpha, GradSum(t.grads, k - 1, t.BBQC)))
          /\ Len(t.passed[k].databatch) = t.batchsize
          /\ \A j \in 1..t.batchsize :
               \E m \in 1..Len(TrainData) : t.passed[k].databatch[j] = TrainData[m]
     \* the k-th appended entry is the loss of the k-th call
     /\ Len(Trace) = Len(t.track0) + t.i
     /\ \A k \in 1..t.i : Trace[Len(t.track0) + k] = t.grads[k].NLL_x
     /\ t.x = VSub(t.initial_x, VScaleRat(t.alpha, GradSum(t.grads, t.i, t.BBQC)))
     /\ t.pc = "wait" => (g.pc # "idle" /\ g.x = t.x /\ g.databatch = t.databatch)
     /\ t.pc = "returned"
          => /\ t.i = t.n_steps
             /\ t.ret.val.x = VSub(t.initial_x,
                                   VScaleRat(t.alpha, GradSum(t.grads, t.n_steps, t.BBQC)))

\* a run of two steps whose two gradients differ and moved x
C8_Witness ==
  /\ t.pc = "returned" /\ t.n_steps = 2 /\ t.BBQC = 2
  /\ t.grads[1].FD_dfdx # t.grads[2].FD_dfdx
  /\ t.grads[1].FD_dfdx[1] # Zero
  /\ t.ret.val.x # t.initial_x
  /\ t.passed[2].x # t.initial_x

\* C10: every sampler call of a run of training uses the circuit and the
\* simulator that were passed to that call of training.
C10_PassedSampler ==
  (t.pc = "wait" /\ g.caller = "training")
  => /\ g.simulator = t.similator /\ g.BBQC = t.BBQC
     /\ \A k \in 1..Len(g.calls) :
          /\ g.calls[k].call.simulator = t.similator
          /\ g.calls[k].call.BBQC = t.BBQC

====
